---- MODULE Spec2Model ----
(***************************************************************************)
(* Verification model of the controller helpers of Omni (package helpers): *)
(* HandleInput (guarded access to a dependent resource through finalizers) *)
(* and UpdateInputsAnnotation / UpdateInputsVersions (change detection by  *)
(* a digest of the inputs' versions).                                      *)
(*                                                                         *)
(* SpecGuard is the state machine of HandleInput calls made by several     *)
(* owners against one resource store; every call is two store operations   *)
(* (the fetch, then AddFinalizer or RemoveFinalizer), and calls of         *)
(* different owners, and the resources' lifecycle, interleave between them.*)
(* SpecAnnot is the state machine of UpdateInputsAnnotation called with    *)
(* arbitrary tokens, SpecCycle that of UpdateInputsVersions over           *)
(* reconciliation cycles, SpecDigest applies the fingerprint to pairs of   *)
(* token sequences.                                                       *)
(***************************************************************************)
EXTENDS Integers, Sequences, FiniteSets, TLC

VARIABLES
    store,       \* guard: id -> the dependent resource of type T kept by the store
    ownerPhase,  \* guard: owner -> phase of the owner (main) resource
    useSite,     \* guard: owner -> the finalizer name and the WithID option of its call site
    pc,          \* guard: owner -> position and observations of its HandleInput call
    annot,       \* annot: annotation key -> value on the output resource
    inputs,      \* annot: position -> version of the input resource at that position
    lastCall,    \* annot: what the latest UpdateInputs* call saw, did and returned
    probe,       \* digest: the two token sequences being fingerprinted
    sums,        \* digest: their fingerprints, once computed
    cluster,     \* talos: the machine status snapshot and the TalosConfig the store holds
    talosCall,   \* talos: what the latest GetTalosClient call read and returned
    patches,     \* patch: the config patches handed to SetPatchesCompress
    compressedPatches, \* patch: res.CompressedPatches, the output collection
    patchCall,   \* patch: what the latest SetPatchesCompress call did and returned
    dst,         \* label: the labels and the annotations of the destination resource
    labelOp,     \* label: the latest copy or clear helper applied and what it found
    conn,        \* log: the bytes of the connection not yet read
    received,    \* log: the handler's HandleMessage calls so far and its buffer
    logState     \* log: position of HandleConn

talosVars == <<cluster, talosCall>>
patchVars == <<patches, compressedPatches, patchCall>>
labelVars == <<dst, labelOp>>
logVars == <<conn, received, logState>>
restVars == <<talosVars, patchVars, labelVars, logVars>>
vars == <<store, ownerPhase, useSite, pc, annot, inputs, lastCall, probe, sums,
          cluster, talosCall, patches, compressedPatches, patchCall, dst, labelOp,
          conn, received, logState>>
guardVars == <<store, ownerPhase, useSite, pc>>
annotVars == <<annot, inputs, lastCall, probe, sums>>

\* The components a specification does not run stay as they are here.
TalosIdle == cluster = <<>> /\ talosCall = <<>>
PatchIdle == patches = <<>> /\ compressedPatches = <<>> /\ patchCall = <<>>
LabelIdle == dst = <<>> /\ labelOp = <<>>
LogIdle == conn = <<>> /\ received = <<>> /\ logState = "idle"

-----------------------------------------------------------------------------
(* Resources, phases, errors                                               *)

Running == "running"
TearingDown == "tearingDown"
Phases == {Running, TearingDown}

Nil == "nil"
NotFound == "notFound"
OtherErr == "error"

Owners == {"o1", "o2"}
\* The owners' ids are their names; a dependent is looked up by id.
IDs == Owners
\* The ids at which a dependent of type T is ever produced.
Produced == {"o1"}
Finalizers == {"f1", "f2"}
NoOpt == "noOpt"

\* The zero value of T (a nil resource); also a store slot holding nothing.
Zero == [exists |-> FALSE, phase |-> Running, fins |-> {}]

Resources == {Zero} \cup [exists : {TRUE}, phase : Phases, fins : SUBSET Finalizers]

\* The call sites the model considers: o1 maps by its own id with f1; o2 maps
\* by its own id or, with WithID, to o1's dependent, with f1 (shared) or f2.
UseSites ==
    { u \in [Owners -> [finalizer : Finalizers, withID : {NoOpt} \cup Produced]] :
        u["o1"] = [finalizer |-> "f1", withID |-> NoOpt] }

-----------------------------------------------------------------------------
(* HandleInput, piece by piece                                             *)

\* options.id: the owner's id unless WithID overrides it.
OptionsID(o) ==
    IF useSite[o].withID = NoOpt THEN o ELSE useSite[o].withID

\* Variant: AddFinalizer that leaves the stored resource as it is.
StoreAddFinalizerNoop(r, f) ==
    r

\* The store's AddFinalizer applied to the stored resource.
StoreAddFinalizer(r, f) ==
    [r EXCEPT !.fins = @ \cup {f}]

\* Variant: a removal that drops every finalizer of the resource.
StoreRemoveAllFinalizers(r, f) ==
    [r EXCEPT !.fins = {}]

\* The store's RemoveFinalizer applied to the stored resource.
StoreRemoveFinalizer(r, f) ==
    [r EXCEPT !.fins = @ \ {f}]

\* Variant: the removal branch taken for a TearingDown dependent only.
NeedsRemoveDependentOnly(resPhase, mainPhase) ==
    resPhase = TearingDown

\* The condition of the removal branch.
NeedsRemove(resPhase, mainPhase) ==
    resPhase = TearingDown \/ mainPhase = TearingDown

\* The condition under which AddFinalizer is called.
NeedsAdd(res, f) ==
    f \notin res.fins

\* Variant: every error of RemoveFinalizer ends the call, not-found too.
RemoveErrReturnedAny(e) ==
    e # Nil

\* Whether an error of RemoveFinalizer ends the call.
RemoveErrReturned(e) ==
    e # Nil /\ e # NotFound

\* Variant: the fetch's not-found is returned like any other error.
FetchErrResultAll(e) ==
    <<Zero, e>>

\* What the fetch's error branch returns: <<result, error>>.
FetchErrResult(e) ==
    IF e = NotFound THEN <<Zero, Nil>> ELSE <<Zero, e>>

\* Variant: the removal branch never returns the dependent.
RemoveBranchResultZero(res) ==
    <<Zero, Nil>>

\* What the removal branch returns once the removal went through.
RemoveBranchResult(res) ==
    IF res.phase = TearingDown THEN <<Zero, Nil>> ELSE <<res, Nil>>

\* What the add branch (or no mutation at all) returns.
AddBranchResult(res, e) ==
    IF e # Nil THEN <<Zero, e>> ELSE <<res, Nil>>

IdleCall ==
    [st |-> "idle", main |-> Running, found |-> Nil, res |-> Zero,
     op |-> "none", opErr |-> Nil, ret |-> Zero, err |-> Nil,
     before |-> Zero, after |-> Zero]

\* The store's answer to a mutation of the resource at id: an injected
\* failure, not-found when the resource is gone, or success.
StoreAnswer(id, fail) ==
    IF fail THEN OtherErr
    ELSE IF ~store[id].exists THEN NotFound
    ELSE Nil

\* First half of a call: options, then safe.ReaderGetByID and its error branch.
HandleInputFetch(o) ==
    /\ pc[o].st # "fetched"
    /\ \E fail \in BOOLEAN :
         LET id == OptionsID(o)
             e == StoreAnswer(id, fail)
         IN  IF e # Nil
             THEN pc' = [pc EXCEPT ![o] =
                           [IdleCall EXCEPT !.st = "returned",
                                            !.main = ownerPhase[o],
                                            !.found = e,
                                            !.ret = FetchErrResult(e)[1],
                                            !.err = FetchErrResult(e)[2],
                                            !.before = store[id],
                                            !.after = store[id]]]
             ELSE pc' = [pc EXCEPT ![o] =
                           [IdleCall EXCEPT !.st = "fetched",
                                            !.main = ownerPhase[o],
                                            !.res = store[id]]]
    /\ UNCHANGED <<store, ownerPhase, useSite, annotVars, restVars>>

\* Second half, removal branch: RemoveFinalizer, then the result by the
\* dependent's phase.
HandleInputRemove(o) ==
    /\ pc[o].st = "fetched"
    /\ NeedsRemove(pc[o].res.phase, pc[o].main)
    /\ \E fail \in BOOLEAN :
         LET id == OptionsID(o)
             f == useSite[o].finalizer
             e == StoreAnswer(id, fail)
             newRes == IF e = Nil THEN StoreRemoveFinalizer(store[id], f) ELSE store[id]
             out == IF RemoveErrReturned(e) THEN <<Zero, e>>
                    ELSE RemoveBranchResult(pc[o].res)
         IN  /\ store' = [store EXCEPT ![id] = newRes]
             /\ pc' = [pc EXCEPT ![o] =
                         [pc[o] EXCEPT !.st = "returned", !.found = Nil,
                                       !.op = "remove", !.opErr = e,
                                       !.ret = out[1], !.err = out[2],
                                       !.before = store[id], !.after = newRes]]
    /\ UNCHANGED <<ownerPhase, useSite, annotVars, restVars>>

\* Second half, both running: AddFinalizer unless the fetched resource has
\* the finalizer, then the fetched resource.
HandleInputAdd(o) ==
    /\ pc[o].st = "fetched"
    /\ ~NeedsRemove(pc[o].res.phase, pc[o].main)
    /\ \E fail \in BOOLEAN :
         LET id == OptionsID(o)
             f == useSite[o].finalizer
             call == NeedsAdd(pc[o].res, f)
             e == IF call THEN StoreAnswer(id, fail) ELSE Nil
             newRes == IF call /\ e = Nil THEN StoreAddFinalizer(store[id], f) ELSE store[id]
             out == AddBranchResult(pc[o].res, e)
         IN  /\ store' = [store EXCEPT ![id] = newRes]
             /\ pc' = [pc EXCEPT ![o] =
                         [pc[o] EXCEPT !.st = "returned", !.found = Nil,
                                       !.op = IF call THEN "add" ELSE "none",
                                       !.opErr = e,
                                       !.ret = out[1], !.err = out[2],
                                       !.before = store[id], !.after = newRes]]
    /\ UNCHANGED <<ownerPhase, useSite, annotVars, restVars>>

-----------------------------------------------------------------------------
(* The resources' lifecycle, as the store runs it                          *)

CreateDependent(id) ==
    /\ id \in Produced
    /\ ~store[id].exists
    /\ store' = [store EXCEPT ![id] = [exists |-> TRUE, phase |-> Running, fins |-> {}]]
    /\ UNCHANGED <<ownerPhase, useSite, pc, annotVars, restVars>>

TeardownDependent(id) ==
    /\ store[id].exists
    /\ store[id].phase = Running
    /\ store' = [store EXCEPT ![id].phase = TearingDown]
    /\ UNCHANGED <<ownerPhase, useSite, pc, annotVars, restVars>>

\* Finalizers block the deletion while the set is non-empty.
DestroyDependent(id) ==
    /\ store[id].exists
    /\ store[id].phase = TearingDown
    /\ store[id].fins = {}
    /\ store' = [store EXCEPT ![id] = Zero]
    /\ UNCHANGED <<ownerPhase, useSite, pc, annotVars, restVars>>

TeardownOwner(o) ==
    /\ ownerPhase[o] = Running
    /\ ownerPhase' = [ownerPhase EXCEPT ![o] = TearingDown]
    /\ UNCHANGED <<store, useSite, pc, annotVars, restVars>>


-----------------------------------------------------------------------------
(* Fingerprint and change-tracked annotation                               *)
(* Strings are sequences of characters.                                    *)

InputResourceVersionAnnotation == "inputResourceVersion"
OtherAnnotation == "other"
AnnKeys == {InputResourceVersionAnnotation, OtherAnnotation}

\* Annotation values: none (the key is absent), some text, or a hex digest.
NoValue == [kind |-> "none", bytes |-> <<>>]
Stale == [kind |-> "text", bytes |-> <<"s">>]

\* sha256 followed by hex.EncodeToString: a digest free of collisions.
Sha256Hex(bytes) == [kind |-> "sha256", bytes |-> bytes]

\* The bytes the loop has written to the hash after its first i iterations.
RECURSIVE HashWritten(_, _)
HashWritten(versions, i) ==
    IF i = 0 THEN <<>>
    ELSE HashWritten(versions, i - 1)
             \o (IF i > 1 THEN <<",">> ELSE <<>>)
             \o versions[i]

\* inVersion: the digest of the tokens.
Fingerprint(versions) ==
    Sha256Hex(HashWritten(versions, Len(versions)))

\* Variant: the annotation is set and true returned without the comparison.
UpdateInputsAnnotationAlways(ann, versions) ==
    [annotations |->
         [ann EXCEPT ![InputResourceVersionAnnotation] = Fingerprint(versions)],
     ret |-> TRUE]

\* UpdateInputsAnnotation on the annotations ann: the annotations after the
\* call and the value returned.
UpdateInputsAnnotation(ann, versions) ==
    LET inVersion == Fingerprint(versions)
        found == ann[InputResourceVersionAnnotation] # NoValue
        version == ann[InputResourceVersionAnnotation]
    IN  IF found /\ version = inVersion
        THEN [annotations |-> ann, ret |-> FALSE]
        ELSE [annotations |->
                  [ann EXCEPT ![InputResourceVersionAnnotation] = inVersion],
              ret |-> TRUE]

\* The input resources: one type, these ids in this order.
InputType == <<"T">>
InputIDs == << <<"a">>, <<"b">>, <<"c">> >>
Versions == { <<"1">>, <<"2">> }
Positions == 1 .. Len(InputIDs)

\* Variant: a token of type and id that leaves the version out.
VersionTokenNoVersion(i, v) ==
    InputType \o <<"/">> \o InputIDs[i]

\* fmt.Sprintf("%s/%s@%s", type, id, version) of the input at position i.
VersionToken(i, v) ==
    InputType \o <<"/">> \o InputIDs[i] \o <<"@">> \o v

\* UpdateInputsVersions: the inputs mapped to tokens, then the annotation.
UpdateInputsVersions(ann, ins) ==
    UpdateInputsAnnotation(ann, [i \in Positions |-> VersionToken(i, ins[i])])

\* Tokens a caller may pass directly: empty, plain, the delimiter alone, and
\* a token that contains the delimiter.
Tokens == { <<>>, <<"a">>, <<",">>, <<"a", ",", "a">> }
MaxTokens == 2
TokenSeqs == UNION { [1 .. n -> Tokens] : n \in 0 .. MaxTokens }

NoInputs == [i \in Positions |-> <<>>]
NoCall ==
    [called |-> FALSE, tokens |-> <<>>, inputs |-> NoInputs,
     before |-> [k \in AnnKeys |-> NoValue], after |-> [k \in AnnKeys |-> NoValue],
     ret |-> FALSE,
     prevCalled |-> FALSE, prevInputs |-> NoInputs, prevRet |-> FALSE, prevDiff |-> -1]

\* Number of positions whose versions differ.
DiffCount(a, b) == Cardinality({i \in Positions : a[i] # b[i]})

GuardIdle ==
    /\ store = [id \in IDs |-> Zero]
    /\ ownerPhase = [o \in Owners |-> Running]
    /\ useSite = [o \in Owners |-> [finalizer |-> "f1", withID |-> NoOpt]]
    /\ pc = [o \in Owners |-> IdleCall]

AnnotIdle ==
    /\ annot = [k \in AnnKeys |-> NoValue]
    /\ inputs = NoInputs
    /\ lastCall = NoCall

DigestIdle ==
    /\ probe = <<>>
    /\ sums = <<>>

\* A reconciliation calls UpdateInputsAnnotation with tokens of its own.
UpdateInputsAnnotationCall(versions) ==
    LET r == UpdateInputsAnnotation(annot, versions)
    IN  /\ annot' = r.annotations
        /\ lastCall' = [NoCall EXCEPT !.called = TRUE, !.tokens = versions,
                                      !.before = annot, !.after = r.annotations,
                                      !.ret = r.ret]
        /\ UNCHANGED <<inputs, probe, sums, guardVars, restVars>>

AnnotInit ==
    /\ annot \in [AnnKeys -> {NoValue, Stale}]
    /\ inputs = NoInputs
    /\ lastCall = NoCall
    /\ DigestIdle
    /\ GuardIdle
    /\ TalosIdle /\ PatchIdle /\ LabelIdle /\ LogIdle

AnnotNext ==
    \E versions \in TokenSeqs : UpdateInputsAnnotationCall(versions)

SpecAnnot == AnnotInit /\ [][AnnotNext]_vars

\* A reconciliation cycle calls UpdateInputsVersions with the inputs as read.
UpdateInputsVersionsCall ==
    LET r == UpdateInputsVersions(annot, inputs)
    IN  /\ annot' = r.annotations
        /\ lastCall' = [called |-> TRUE,
                        tokens |-> [i \in Positions |-> VersionToken(i, inputs[i])],
                        inputs |-> inputs,
                        before |-> annot, after |-> r.annotations, ret |-> r.ret,
                        prevCalled |-> lastCall.called,
                        prevInputs |-> lastCall.inputs,
                        prevRet |-> lastCall.ret,
                        prevDiff |-> IF lastCall.prevCalled
                                     THEN DiffCount(lastCall.inputs, lastCall.prevInputs)
                                     ELSE -1]
        /\ UNCHANGED <<inputs, probe, sums, guardVars, restVars>>

\* The store gives the input at position i another version.
ChangeVersion(i, v) ==
    /\ inputs[i] # v
    /\ inputs' = [inputs EXCEPT ![i] = v]
    /\ UNCHANGED <<annot, lastCall, probe, sums, guardVars, restVars>>

CycleInit ==
    /\ annot \in [AnnKeys -> {NoValue, Stale}]
    /\ inputs \in [Positions -> Versions]
    /\ lastCall = NoCall
    /\ DigestIdle
    /\ GuardIdle
    /\ TalosIdle /\ PatchIdle /\ LabelIdle /\ LogIdle

CycleNext ==
    \/ UpdateInputsVersionsCall
    \/ \E i \in Positions : \E v \in Versions : ChangeVersion(i, v)

SpecCycle == CycleInit /\ [][CycleNext]_vars

\* Two fresh targets get the fingerprints of the two token sequences.
FingerprintBoth ==
    /\ sums = <<>>
    /\ sums' = [i \in 1 .. 2 |->
                  UpdateInputsAnnotation([k \in AnnKeys |-> NoValue], probe[i])
                      .annotations[InputResourceVersionAnnotation]]
    /\ UNCHANGED <<probe, annot, inputs, lastCall, guardVars, restVars>>

DigestInit ==
    /\ probe \in [1 .. 2 -> TokenSeqs]
    /\ sums = <<>>
    /\ AnnotIdle
    /\ GuardIdle
    /\ TalosIdle /\ PatchIdle /\ LabelIdle /\ LogIdle

DigestNext == FingerprintBoth

SpecDigest == DigestInit /\ [][DigestNext]_vars

-----------------------------------------------------------------------------
GuardInit ==
    /\ store = [id \in IDs |-> Zero]
    /\ ownerPhase = [o \in Owners |-> Running]
    /\ useSite \in UseSites
    /\ pc = [o \in Owners |-> IdleCall]
    /\ AnnotIdle
    /\ DigestIdle
    /\ TalosIdle /\ PatchIdle /\ LabelIdle /\ LogIdle

GuardNext ==
    \/ \E o \in Owners : HandleInputFetch(o)
    \/ \E o \in Owners : HandleInputRemove(o)
    \/ \E o \in Owners : HandleInputAdd(o)
    \/ \E id \in IDs : CreateDependent(id)
    \/ \E id \in IDs : TeardownDependent(id)
    \/ \E id \in IDs : DestroyDependent(id)
    \/ \E o \in Owners : TeardownOwner(o)

SpecGuard == GuardInit /\ [][GuardNext]_vars

GuardTypeOK ==
    /\ store \in [IDs -> Resources]
    /\ ownerPhase \in [Owners -> Phases]
    /\ useSite \in UseSites
    /\ \A o \in Owners : pc[o].st \in {"idle", "fetched", "returned"}

-----------------------------------------------------------------------------
(* Properties of HandleInput (checked under SpecGuard)                     *)

Returned(o) == pc[o].st = "returned"
FinalizerOf(o) == useSite[o].finalizer
DependentOf(o) == IF useSite[o].withID = NoOpt THEN o ELSE useSite[o].withID

\* No other owner's call site uses o's finalizer name on o's dependent.
Exclusive(o) ==
    \A p \in Owners \ {o} :
        DependentOf(p) # DependentOf(o) \/ FinalizerOf(p) # FinalizerOf(o)

\* No call is between its fetch and its return.
Quiescent == \A o \in Owners : pc[o].st # "fetched"

\* C1: guard lifecycle of one owner's calls with its own finalizer f on a
\* dependent that the fetch found: after a successful call that saw owner
\* and dependent Running the store holds f on the dependent (whether the
\* call added it or found it there); after a successful call that saw the
\* owner or the dependent TearingDown the store no longer holds f; and a
\* call that finds f already removed returns without error unless the store
\* itself fails.
C1_GuardLifecycle ==
    \A o \in Owners :
        (Returned(o) /\ pc[o].found = Nil) =>
            LET f == FinalizerOf(o)
                sawRunning == pc[o].res.phase = Running /\ pc[o].main = Running
            IN  /\ (pc[o].err = Nil /\ sawRunning /\ Exclusive(o))
                       => f \in pc[o].after.fins
                /\ (pc[o].err = Nil /\ ~sawRunning)
                       => f \notin pc[o].after.fins
                /\ (~sawRunning /\ f \notin pc[o].res.fins /\ pc[o].opErr # OtherErr)
                       => pc[o].err = Nil

\* A call of a tearing-down owner removed the finalizer an earlier call had
\* added to the Running dependent.
C1_Witness ==
    \E o \in Owners :
        /\ Returned(o) /\ pc[o].err = Nil /\ Exclusive(o)
        /\ pc[o].main = TearingDown /\ pc[o].res.phase = Running
        /\ FinalizerOf(o) \in pc[o].res.fins
        /\ FinalizerOf(o) \in pc[o].before.fins
        /\ FinalizerOf(o) \notin pc[o].after.fins

\* C2: with no error returned, the result is the zero value exactly when the
\* dependent does not exist or was fetched TearingDown; otherwise it is the
\* fetched dependent, also for a TearingDown owner (whose guard is removed).
C2_Result ==
    \A o \in Owners :
        (Returned(o) /\ pc[o].err = Nil) =>
            /\ pc[o].ret = Zero <=>
                   (pc[o].found = NotFound \/ pc[o].res.phase = TearingDown)
            /\ pc[o].ret # Zero => pc[o].ret = pc[o].res
            /\ (pc[o].found = Nil /\ pc[o].main = TearingDown
                    /\ pc[o].res.phase = Running)
                   => /\ pc[o].ret = pc[o].res
                      /\ FinalizerOf(o) \notin pc[o].after.fins

\* A TearingDown owner got its Running dependent back.
C2_Witness ==
    \E o \in Owners :
        /\ Returned(o) /\ pc[o].err = Nil /\ pc[o].found = Nil
        /\ pc[o].main = TearingDown /\ pc[o].res.phase = Running
        /\ pc[o].res.exists /\ pc[o].ret = pc[o].res

\* C3: a fetch that reports not-found ends the call with the zero result and
\* a nil error, whatever the owner's phase, without AddFinalizer or
\* RemoveFinalizer, and the step leaves the store as it was.
C3_AbsentDependent ==
    [][\A o \in Owners :
          (pc'[o].st = "returned" /\ pc'[o].found = NotFound) =>
              /\ pc'[o].ret = Zero
              /\ pc'[o].err = Nil
              /\ pc'[o].op = "none"
              /\ pc'[o].after = pc'[o].before
              /\ pc'[o] # pc[o] => store' = store]_vars

\* A TearingDown owner's call found no dependent.
C3_Witness ==
    \E o \in Owners :
        /\ Returned(o) /\ pc[o].found = NotFound
        /\ pc[o].main = TearingDown
        /\ pc[o].ret = Zero /\ pc[o].err = Nil

\* The owner's latest call returned the dependent guarded (both Running).
Resolved(o) ==
    /\ Returned(o) /\ pc[o].err = Nil /\ pc[o].found = Nil
    /\ pc[o].main = Running /\ pc[o].res.phase = Running
    /\ pc[o].ret # Zero

\* C4 (the guarantee the claimed invariant entails): whenever no call is in
\* progress, a Running dependent carries the finalizer of every Running
\* owner that resolved it, also when several owners resolve the same
\* dependent with the same finalizer name.
C4_GuardWhileRequired ==
    Quiescent =>
        \A o \in Owners :
            (/\ Resolved(o)
             /\ ownerPhase[o] = Running
             /\ store[DependentOf(o)].exists
             /\ store[DependentOf(o)].phase = Running)
                => FinalizerOf(o) \in store[DependentOf(o)].fins

\* C5: a call made with finalizer f changes nothing of the stored dependent
\* but the membership of f: every other finalizer name, the phase and the
\* existence are as they were, whatever calls of other owners are in flight.
C5_Isolation ==
    \A o \in Owners :
        Returned(o) =>
            /\ pc[o].after.fins \ {FinalizerOf(o)} = pc[o].before.fins \ {FinalizerOf(o)}
            /\ pc[o].after.exists = pc[o].before.exists
            /\ pc[o].after.phase = pc[o].before.phase

\* An owner removed its finalizer while another owner's differently named
\* finalizer was on the dependent and that owner's call was in flight.
C5_Witness ==
    \E o \in Owners : \E p \in Owners \ {o} :
        /\ Returned(o) /\ pc[o].op = "remove" /\ pc[o].opErr = Nil
        /\ FinalizerOf(p) # FinalizerOf(o)
        /\ DependentOf(p) = DependentOf(o)
        /\ pc[p].st = "fetched"
        /\ FinalizerOf(o) \in pc[o].before.fins
        /\ FinalizerOf(p) \in pc[o].before.fins
        /\ pc[o].after.fins = pc[o].before.fins \ {FinalizerOf(o)}

\* C6 as claimed: the returned resource carries the finalizer the call added
\* and lacks the finalizer the call removed.
C6_ReturnedReflectsMutation ==
    \A o \in Owners :
        (Returned(o) /\ pc[o].err = Nil /\ pc[o].opErr = Nil) =>
            /\ pc[o].op = "add" => FinalizerOf(o) \in pc[o].ret.fins
            /\ (pc[o].op = "remove" /\ pc[o].ret # Zero)
                   => FinalizerOf(o) \notin pc[o].ret.fins

\* C6 amended: the store reflects the mutation when the call returns, and
\* the returned resource is the one the fetch read before the mutation.
C6_StoreReflectsMutation ==
    \A o \in Owners :
        (Returned(o) /\ pc[o].err = Nil /\ pc[o].opErr = Nil) =>
            /\ pc[o].op = "add" =>
                   /\ FinalizerOf(o) \in pc[o].after.fins
                   /\ pc[o].ret = pc[o].res
                   /\ FinalizerOf(o) \notin pc[o].ret.fins
            /\ (pc[o].op = "remove" /\ pc[o].ret # Zero) =>
                   /\ FinalizerOf(o) \notin pc[o].after.fins
                   /\ pc[o].ret = pc[o].res

\* A call added the finalizer to the store and returned the resource as
\* fetched, without it.
C6_Witness ==
    \E o \in Owners :
        /\ Returned(o) /\ pc[o].err = Nil /\ pc[o].op = "add"
        /\ FinalizerOf(o) \in pc[o].after.fins
        /\ FinalizerOf(o) \notin pc[o].ret.fins
        /\ pc[o].ret.exists

\* C7: a not-found answer of RemoveFinalizer is swallowed and the call ends
\* as after a removal; every other error of the fetch, of RemoveFinalizer or
\* of AddFinalizer is returned with the zero result; no result comes with an
\* error; a not-found fetch is never an error.
C7_Errors ==
    \A o \in Owners :
        Returned(o) =>
            /\ (pc[o].op = "remove" /\ pc[o].opErr = NotFound) =>
                   /\ pc[o].err = Nil
                   /\ pc[o].ret = IF pc[o].res.phase = TearingDown THEN Zero ELSE pc[o].res
            /\ pc[o].found = OtherErr => (pc[o].ret = Zero /\ pc[o].err = OtherErr)
            /\ pc[o].opErr = OtherErr => (pc[o].ret = Zero /\ pc[o].err = OtherErr)
            /\ (pc[o].op = "add" /\ pc[o].opErr # Nil) =>
                   (pc[o].ret = Zero /\ pc[o].err = pc[o].opErr)
            /\ pc[o].err # Nil => pc[o].ret = Zero
            /\ pc[o].found = NotFound => pc[o].err = Nil

\* RemoveFinalizer answered not-found (the dependent was destroyed after the
\* fetch) and the call returned without error.
C7_Witness ==
    \E o \in Owners :
        /\ Returned(o) /\ pc[o].op = "remove" /\ pc[o].opErr = NotFound
        /\ pc[o].err = Nil

-----------------------------------------------------------------------------
(* Properties of the change-tracked annotation                             *)

\* C8 (SpecAnnot): UpdateInputsAnnotation returns true exactly when the
\* inputResourceVersion annotation was absent or different from the digest
\* of the tokens and false exactly when it was equal; afterwards the
\* annotation is that digest and the other annotation is as it was.
C8_ChangeReported ==
    lastCall.called =>
        LET digest == Sha256Hex(HashWritten(lastCall.tokens, Len(lastCall.tokens)))
            old == lastCall.before[InputResourceVersionAnnotation]
        IN  /\ lastCall.ret = TRUE <=> (old = NoValue \/ old # digest)
            /\ lastCall.ret = FALSE <=> old = digest
            /\ lastCall.after[InputResourceVersionAnnotation] = digest
            /\ lastCall.after[OtherAnnotation] = lastCall.before[OtherAnnotation]
            /\ annot = lastCall.after

\* A call found the digest of its (non-empty) tokens already stored, beside
\* another annotation, and returned false.
C8_Witness ==
    /\ lastCall.called
    /\ lastCall.tokens # <<>>
    /\ lastCall.before[InputResourceVersionAnnotation] = Fingerprint(lastCall.tokens)
    /\ lastCall.before[OtherAnnotation] = Stale
    /\ lastCall.ret = FALSE

\* C9 (SpecCycle): a call that follows a call with the same inputs returns
\* false and leaves the annotations alone; a call that follows a call after
\* the version of exactly one input changed returns true and changes the
\* annotation; and the call after that one, the inputs unchanged again,
\* returns false.
C9_CycleDetection ==
    (lastCall.called /\ lastCall.prevCalled) =>
        /\ lastCall.inputs = lastCall.prevInputs =>
               (lastCall.ret = FALSE /\ lastCall.after = lastCall.before)
        /\ DiffCount(lastCall.inputs, lastCall.prevInputs) = 1 =>
               /\ lastCall.ret = TRUE
               /\ lastCall.after[InputResourceVersionAnnotation]
                      # lastCall.before[InputResourceVersionAnnotation]
        /\ (lastCall.prevDiff = 1 /\ lastCall.inputs = lastCall.prevInputs) =>
               (lastCall.prevRet = TRUE /\ lastCall.ret = FALSE)

\* The latest call returned false with unchanged inputs, right after a call
\* that had reported the change of one input's version.
C9_Witness ==
    /\ lastCall.called /\ lastCall.prevCalled
    /\ lastCall.prevDiff = 1 /\ lastCall.prevRet = TRUE
    /\ lastCall.inputs = lastCall.prevInputs
    /\ lastCall.ret = FALSE

\* C10 (SpecDigest): two token sequences have the same fingerprint exactly
\* when they are the same sequence, for arbitrary tokens, empty tokens and
\* tokens containing the delimiter included.
C10_FingerprintSensitive ==
    sums # <<>> => (sums[1] = sums[2] <=> probe[1] = probe[2])

\* ---------------------------------------------------------------------
\* GetTalosClient: the choice between the insecure and the verified client
\* ---------------------------------------------------------------------

Maintenance == "MAINTENANCE"
RunningStage == "RUNNING"
Stages == {Maintenance, RunningStage}
MachineID == "m1"
ClusterNames == {"c1", "c2"}
NoLabel == "no-cluster-label"
NoMachine == [id |-> "nil", cluster |-> NoLabel]
Machines == {NoMachine} \cup
            [id : {MachineID}, cluster : ClusterNames \cup {NoLabel}]
Addresses == {"10.0.0.1", "unix:///run/machine.sock"}
Absent == [kind |-> "absent", stage |-> "", ca |-> ""]
Snapshots == {Absent} \cup [kind : {"snapshot"}, stage : Stages, ca : {""}]
TalosConfigOf(name) == [kind |-> "talosconfig", stage |-> "", ca |-> name]
Clusters == [snapshot : Snapshots,
             talosConfig : {f \in [ClusterNames -> {Absent} \cup
                                       {TalosConfigOf(n) : n \in ClusterNames}] :
                               \A n \in ClusterNames :
                                   f[n] \in {Absent, TalosConfigOf(n)}}]

NoError == [cause |-> Nil, wrap |-> "none", name |-> ""]
NoClient == [tls |-> "none", config |-> Absent, endpoints |-> <<>>,
             socket |-> FALSE]

\* talos.GetSocketOptions(address): dial options for a unix socket address,
\* nil for any other address.
GetSocketOptions(address) ==
    IF address = "unix:///run/machine.sock" THEN <<"unix-socket">> ELSE <<>>

\* safe.ReaderGetByID / safe.ReaderGet: the stored resource, a not-found
\* error with a nil resource, or another error of the store.
ReaderGet(stored, fail) ==
    IF fail THEN [res |-> Absent, err |-> OtherErr]
    ELSE IF stored = Absent THEN [res |-> Absent, err |-> NotFound]
    ELSE [res |-> stored, err |-> Nil]

\* client.New: the client the options describe, or the factory's error.
ClientNew(c, fail) ==
    IF fail THEN [client |-> NoClient, err |-> [NoError EXCEPT !.cause = OtherErr]]
    ELSE [client |-> c, err |-> NoError]

createInsecureClient(address, fail) ==
    ClientNew([tls |-> "InsecureSkipVerify", config |-> Absent,
               endpoints |-> <<address>>,
               socket |-> GetSocketOptions(address) # <<>>], fail)

InMaintenanceNever(snapshot) == FALSE

InMaintenance(snapshot) ==
    snapshot # Absent /\ snapshot.stage = Maintenance

\* The verified client: the TalosConfig's configuration, with the address as
\* the only endpoint when there are no socket options.
createConfigClient(address, talosConfig, machine, fail) ==
    LET opts == GetSocketOptions(address)
        endpoints == IF opts = <<>> THEN <<address>> ELSE <<>>
        made == ClientNew([tls |-> "config", config |-> talosConfig,
                           endpoints |-> endpoints, socket |-> opts # <<>>],
                          fail)
    IN  IF made.err # NoError
        THEN [client |-> NoClient,
              err |-> [made.err EXCEPT !.wrap = "machine", !.name = machine.id]]
        ELSE made

\* Reads both resources before looking at any rule.
GetTalosClientEager(r, address, machine, snapFail, cfgFail, newFail) ==
    LET both == <<"MachineStatusSnapshot", "TalosConfig">>
        snap == ReaderGet(r.snapshot, snapFail)
        cfg == IF machine.cluster \in ClusterNames
               THEN ReaderGet(r.talosConfig[machine.cluster], cfgFail)
               ELSE ReaderGet(Absent, cfgFail)
    IN  IF snap.err # Nil /\ snap.err # NotFound
        THEN [reads |-> both, client |-> NoClient,
              err |-> [NoError EXCEPT !.cause = snap.err]]
        ELSE IF cfg.err # Nil /\ cfg.err # NotFound
        THEN [reads |-> both, client |-> NoClient,
              err |-> [cause |-> cfg.err, wrap |-> "cluster",
                       name |-> machine.cluster]]
        ELSE IF \/ machine = NoMachine
                \/ InMaintenance(snap.res)
                \/ machine.cluster = NoLabel
                \/ cfg.res = Absent
        THEN [reads |-> both] @@ createInsecureClient(address, newFail)
        ELSE [reads |-> both] @@
             createConfigClient(address, cfg.res, machine, newFail)

\* GetTalosClient(ctx, r, address, machineResource); reads lists the store
\* lookups made, in order.
GetTalosClient(r, address, machine, snapFail, cfgFail, newFail) ==
    IF machine = NoMachine
    THEN [reads |-> <<>>] @@ createInsecureClient(address, newFail)
    ELSE
    LET snap == ReaderGet(r.snapshot, snapFail)
        r1 == <<"MachineStatusSnapshot">>
    IN  IF snap.err # Nil /\ snap.err # NotFound
        THEN [reads |-> r1, client |-> NoClient,
              err |-> [NoError EXCEPT !.cause = snap.err]]
        ELSE IF InMaintenance(snap.res)
        THEN [reads |-> r1] @@ createInsecureClient(address, newFail)
        ELSE IF machine.cluster = NoLabel
        THEN [reads |-> r1] @@ createInsecureClient(address, newFail)
        ELSE
        LET cfg == ReaderGet(r.talosConfig[machine.cluster], cfgFail)
            r2 == Append(r1, "TalosConfig")
        IN  IF cfg.err # Nil /\ cfg.err # NotFound
            THEN [reads |-> r2, client |-> NoClient,
                  err |-> [cause |-> cfg.err, wrap |-> "cluster",
                           name |-> machine.cluster]]
            ELSE IF cfg.res = Absent
            THEN [reads |-> r2] @@ createInsecureClient(address, newFail)
            ELSE [reads |-> r2] @@
                 createConfigClient(address, cfg.res, machine, newFail)

NoTalosCall ==
    [called |-> FALSE, machine |-> NoMachine, address |-> "",
     snapFail |-> FALSE, cfgFail |-> FALSE, newFail |-> FALSE,
     reads |-> <<>>, client |-> NoClient, err |-> NoError]

GetTalosClientCall(address, machine, snapFail, cfgFail, newFail) ==
    LET ret == GetTalosClient(cluster, address, machine, snapFail, cfgFail,
                              newFail)
    IN  /\ talosCall' = [called |-> TRUE, machine |-> machine,
                         address |-> address, snapFail |-> snapFail,
                         cfgFail |-> cfgFail, newFail |-> newFail,
                         reads |-> ret.reads, client |-> ret.client,
                         err |-> ret.err]
        /\ UNCHANGED <<cluster, guardVars, annotVars, patchVars, labelVars,
                       logVars>>

TalosInit ==
    /\ cluster \in Clusters
    /\ talosCall = NoTalosCall
    /\ GuardIdle /\ AnnotIdle /\ DigestIdle
    /\ PatchIdle /\ LabelIdle /\ LogIdle

TalosNext ==
    \E address \in Addresses, machine \in Machines,
       snapFail \in BOOLEAN, cfgFail \in BOOLEAN, newFail \in BOOLEAN :
        GetTalosClientCall(address, machine, snapFail, cfgFail, newFail)

SpecTalos == TalosInit /\ [][TalosNext]_vars

\* A store lookup the latest call made failed with an error other than
\* not-found.
LookupFailed ==
    \/ talosCall.reads # <<>> /\ talosCall.snapFail
    \/ Len(talosCall.reads) = 2 /\ talosCall.cfgFail

\* C11 (SpecTalos): when no store lookup fails with an error other than
\* not-found and a connection is made, the connection is insecure if the
\* machine is nil, or its snapshot exists and reports maintenance, or it has
\* no cluster label, or the cluster's TalosConfig is absent; otherwise it is
\* the verified connection configured from the stored TalosConfig of the
\* machine's cluster.  A missing snapshot counts as not in maintenance.
C11_TrustSelection ==
    (talosCall.called /\ ~LookupFailed /\ ~talosCall.newFail) =>
        LET m == talosCall.machine
            unauthenticated ==
                \/ m = NoMachine
                \/ cluster.snapshot # Absent /\ cluster.snapshot.stage = Maintenance
                \/ m.cluster = NoLabel
                \/ cluster.talosConfig[m.cluster] = Absent
        IN  /\ talosCall.err = NoError
            /\ unauthenticated =>
                   /\ talosCall.client.tls = "InsecureSkipVerify"
                   /\ talosCall.client.config = Absent
            /\ ~unauthenticated =>
                   /\ talosCall.client.tls = "config"
                   /\ talosCall.client.config = cluster.talosConfig[m.cluster]

\* A labelled machine with no snapshot got the verified connection of its
\* cluster.
C11_Witness ==
    /\ talosCall.called /\ ~LookupFailed /\ ~talosCall.newFail
    /\ talosCall.machine # NoMachine
    /\ talosCall.machine.cluster # NoLabel
    /\ cluster.snapshot = Absent
    /\ talosCall.client.tls = "config"
    /\ talosCall.client.config = TalosConfigOf(talosCall.machine.cluster)

\* C12 (SpecTalos): a store lookup failing with an error other than
\* not-found, for the machine status snapshot as for the TalosConfig, aborts
\* the call with no connection and an error carrying the cluster or the
\* machine identity; a failure to construct the verified connection is
\* returned wrapped with the machine identity.
C12_ErrorsCarryIdentity ==
    talosCall.called =>
        /\ LookupFailed =>
               /\ talosCall.client = NoClient
               /\ talosCall.err.cause = OtherErr
               /\ \/ talosCall.err.wrap = "cluster"
                     /\ talosCall.err.name = talosCall.machine.cluster
                  \/ talosCall.err.wrap = "machine"
                     /\ talosCall.err.name = talosCall.machine.id
        /\ (~LookupFailed /\ Len(talosCall.reads) = 2 /\ talosCall.newFail
              /\ cluster.talosConfig[talosCall.machine.cluster] # Absent) =>
               /\ talosCall.client = NoClient
               /\ talosCall.err =
                      [cause |-> OtherErr, wrap |-> "machine",
                       name |-> talosCall.machine.id]

\* ---------------------------------------------------------------------
\* SetPatchesCompress: compressed config patches of a machine
\* ---------------------------------------------------------------------

MaxPatches == 2
MaxCalls == 2
SmallPatchThreshold == 1024

Space == {" ", "\n"}
Bodies == {<<>>, <<" ", "\n">>, <<"x">>, <<" ", "x", "\n">>}

\* A patch's content: its first bytes, and whether it is so long that its
\* compressed form reaches the small patch threshold.
Content(body, long) == [body |-> body, long |-> long]
NoContent == Content(<<>>, FALSE)
Contents == {Content(b, FALSE) : b \in Bodies} \cup
            {Content(<<" ", "\n">>, TRUE), Content(<<"x">>, TRUE)}

\* Compressed bytes: what they decompress to, the encoder level that made
\* them, and their length.
NoBytes == [kind |-> "nil", of |-> NoContent, level |-> "", len |-> 0]
DefaultLevel == "default"
OtherLevel == "best"
CompressedLen(c) ==
    IF c.long THEN SmallPatchThreshold + Len(c.body) ELSE 1 + Len(c.body)
Encode(c, level) ==
    [kind |-> "zstd", of |-> c, level |-> level, len |-> CompressedLen(c)]
Corrupt(len) == [kind |-> "corrupt", of |-> NoContent, level |-> "", len |-> len]

doCompress(c) == Encode(c, DefaultLevel)

doDecompress(b) ==
    IF b.kind = "zstd" THEN [data |-> b.of, err |-> Nil]
    ELSE [data |-> NoContent, err |-> OtherErr]

\* ConfigPatchSpec: Data and CompressedData.
Patch(data, compressed) == [data |-> data, compressed |-> compressed]
PatchValues ==
    {Patch(c, NoBytes) : c \in Contents \ {Content(<<"x">>, TRUE)}} \cup
    {Patch(NoContent, Encode(c, DefaultLevel)) :
        c \in Contents \ {NoContent, Content(<<" ", "x", "\n">>, FALSE)}} \cup
    {Patch(NoContent, Encode(Content(<<"x">>, FALSE), OtherLevel)),
     Patch(NoContent, Corrupt(1)),
     Patch(NoContent, Corrupt(SmallPatchThreshold))}

GetCompressedData(patch) == patch.compressed

\* ConfigPatchSpec.GetUncompressedData: Data when there is no compressed
\* form, else the decompressed CompressedData.
GetUncompressedData(patch) ==
    IF patch.compressed = NoBytes THEN [data |-> patch.data, err |-> Nil]
    ELSE doDecompress(patch.compressed)

\* ConfigPatchSpec.SetUncompressedData: stores the compressed form of data
\* and drops Data, or fails and leaves the patch alone.
SetUncompressedData(patch, data, fail) ==
    IF fail THEN [patch |-> patch, err |-> OtherErr]
    ELSE [patch |-> Patch(NoContent, doCompress(data)), err |-> Nil]

RECURSIVE TrimLeft(_)
TrimLeft(b) ==
    IF b # <<>> /\ Head(b) \in Space THEN TrimLeft(Tail(b)) ELSE b

RECURSIVE TrimRight(_)
TrimRight(b) ==
    IF b # <<>> /\ b[Len(b)] \in Space
    THEN TrimRight(SubSeq(b, 1, Len(b) - 1)) ELSE b

\* bytes.TrimSpace
TrimSpace(b) == TrimRight(TrimLeft(b))

IsEmptyPatchNever(patch) == FALSE

IsEmptyPatch(patch) ==
    LET buffer == GetUncompressedData(patch)
    IN  IF buffer.err # Nil THEN FALSE
        ELSE Len(TrimSpace(buffer.data.body)) = 0

\* Compresses whatever the patch holds, a stored compressed form included.
getCompressedRecompress(patch, fail) ==
    IF IsEmptyPatch(patch)
    THEN [patch |-> patch, compr |-> NoBytes, err |-> Nil]
    ELSE
    LET buffer == GetUncompressedData(patch)
    IN  IF buffer.err # Nil
        THEN [patch |-> patch, compr |-> NoBytes, err |-> buffer.err]
        ELSE LET set == SetUncompressedData(patch, buffer.data, fail)
             IN  [patch |-> set.patch, err |-> set.err,
                  compr |-> IF set.err # Nil THEN NoBytes
                            ELSE set.patch.compressed]

\* getCompressed(patch): the bytes to append (nil for an empty patch), the
\* patch as the call leaves it, and the error.
getCompressed(patch, fail) ==
    IF IsEmptyPatch(patch)
    THEN [patch |-> patch, compr |-> NoBytes, err |-> Nil]
    ELSE
    LET compressedData == GetCompressedData(patch)
    IN  IF compressedData.len > 0
        THEN [patch |-> patch, compr |-> compressedData, err |-> Nil]
        ELSE
        LET buffer == GetUncompressedData(patch)
        IN  IF buffer.err # Nil
            THEN [patch |-> patch, compr |-> NoBytes, err |-> buffer.err]
            ELSE LET set == SetUncompressedData(patch, buffer.data, fail)
                 IN  IF set.err # Nil
                     THEN [patch |-> set.patch, compr |-> NoBytes,
                           err |-> set.err]
                     ELSE [patch |-> set.patch,
                           compr |-> set.patch.compressed, err |-> Nil]

\* The loop, undoing what it appended when a patch fails.
RECURSIVE SetPatchesCompressRollback(_, _, _, _, _)
SetPatchesCompressRollback(res, ps, i, failAt, first) ==
    IF i > Len(ps) THEN [out |-> res, patches |-> ps, err |-> Nil, at |-> 0]
    ELSE
    LET got == getCompressed(ps[i], failAt = i)
        ps1 == [ps EXCEPT ![i] = got.patch]
    IN  IF got.err # Nil
        THEN [out |-> first, patches |-> ps1, err |-> got.err, at |-> i]
        ELSE IF got.compr = NoBytes
        THEN SetPatchesCompressRollback(res, ps1, i + 1, failAt, first)
        ELSE IF got.compr.len < SmallPatchThreshold /\ IsEmptyPatch(ps1[i])
        THEN SetPatchesCompressRollback(res, ps1, i + 1, failAt, first)
        ELSE SetPatchesCompressRollback(Append(res, got.compr), ps1, i + 1,
                                        failAt, first)

\* The loop, leaving out bytes the collection already holds.
RECURSIVE SetPatchesCompressOnce(_, _, _, _, _)
SetPatchesCompressOnce(res, ps, i, failAt, first) ==
    IF i > Len(ps) THEN [out |-> res, patches |-> ps, err |-> Nil, at |-> 0]
    ELSE
    LET got == getCompressed(ps[i], failAt = i)
        ps1 == [ps EXCEPT ![i] = got.patch]
    IN  IF got.err # Nil
        THEN [out |-> res, patches |-> ps1, err |-> got.err, at |-> i]
        ELSE IF got.compr = NoBytes
        THEN SetPatchesCompressOnce(res, ps1, i + 1, failAt, first)
        ELSE IF got.compr.len < SmallPatchThreshold /\ IsEmptyPatch(ps1[i])
        THEN SetPatchesCompressOnce(res, ps1, i + 1, failAt, first)
        ELSE IF \E k \in 1..Len(res) : res[k] = got.compr
        THEN SetPatchesCompressOnce(res, ps1, i + 1, failAt, first)
        ELSE SetPatchesCompressOnce(Append(res, got.compr), ps1, i + 1,
                                    failAt, first)

\* SetPatchesCompress(res, patches) from the i-th patch on; the compression
\* of the failAt-th patch fails if it is attempted.  first is
\* res.CompressedPatches at the call.
RECURSIVE SetPatchesCompress(_, _, _, _, _)
SetPatchesCompress(res, ps, i, failAt, first) ==
    IF i > Len(ps) THEN [out |-> res, patches |-> ps, err |-> Nil, at |-> 0]
    ELSE
    LET got == getCompressed(ps[i], failAt = i)
        ps1 == [ps EXCEPT ![i] = got.patch]
    IN  IF got.err # Nil
        THEN [out |-> res, patches |-> ps1, err |-> got.err, at |-> i]
        ELSE IF got.compr = NoBytes
        THEN SetPatchesCompress(res, ps1, i + 1, failAt, first)
        ELSE IF got.compr.len < SmallPatchThreshold /\ IsEmptyPatch(ps1[i])
        THEN SetPatchesCompress(res, ps1, i + 1, failAt, first)
        ELSE SetPatchesCompress(Append(res, got.compr), ps1, i + 1, failAt,
                                first)

PriorEntry == Encode(Content(<<"x">>, FALSE), OtherLevel)

NoPatchCall ==
    [calls |-> 0, before |-> <<>>, first |-> <<>>, err |-> Nil, at |-> 0,
     prevErr |-> Nil, prevAppended |-> <<>>]

\* What the latest call appended.
Appended == SubSeq(compressedPatches, Len(patchCall.first) + 1,
                   Len(compressedPatches))

SetPatchesCompressCall(failAt) ==
    /\ patchCall.calls < MaxCalls
    /\ LET ret == SetPatchesCompress(compressedPatches, patches, 1, failAt,
                                     compressedPatches)
       IN  /\ compressedPatches' = ret.out
           /\ patches' = ret.patches
           /\ patchCall' = [calls |-> patchCall.calls + 1,
                            before |-> patches,
                            first |-> compressedPatches,
                            err |-> ret.err, at |-> ret.at,
                            prevErr |-> patchCall.err,
                            prevAppended |-> Appended]
    /\ UNCHANGED <<guardVars, annotVars, talosVars, labelVars, logVars>>

PatchSeqs ==
    UNION {[1..n -> PatchValues] : n \in 0..MaxPatches}

PatchInit ==
    /\ patches \in PatchSeqs
    /\ compressedPatches \in {<<>>, <<PriorEntry>>}
    /\ patchCall = NoPatchCall
    /\ GuardIdle /\ AnnotIdle /\ DigestIdle
    /\ TalosIdle /\ LabelIdle /\ LogIdle

PatchNext == \E failAt \in 0..MaxPatches : SetPatchesCompressCall(failAt)

SpecPatch == PatchInit /\ [][PatchNext]_vars

\* What a patch says, read from whichever form it holds.
LogicalContent(patch) ==
    IF patch.compressed = NoBytes THEN patch.data ELSE patch.compressed.of

Blank(c) == \A k \in 1..Len(c.body) : c.body[k] \in Space

Decodable(patch) == patch.compressed.kind # "corrupt"

\* The patch is not empty as far as its content can be read.
Kept(patch) == ~Decodable(patch) \/ ~Blank(LogicalContent(patch))

\* The entries of the kept patches among the first n, in input order.
RECURSIVE Entries(_, _)
Entries(ps, n) ==
    IF n = 0 THEN <<>>
    ELSE IF ~Kept(ps[n]) THEN Entries(ps, n - 1)
    ELSE Append(Entries(ps, n - 1),
                IF ps[n].compressed # NoBytes THEN ps[n].compressed
                ELSE [kind |-> "zstd", of |-> ps[n].data,
                      level |-> DefaultLevel,
                      len |-> CompressedLen(ps[n].data)])

\* C13 (SpecPatch): when no error occurs, the entries a call appends are
\* the compressed bytes of the input patches whose decompressed content is
\* neither empty nor whitespace-only, one entry per such patch, in input
\* order, without deduplication; a whitespace-only or empty patch is never
\* appended, whether its compressed size is below the small patch threshold
\* or not.
C13_Output ==
    (/\ patchCall.calls >= 1
     /\ patchCall.err = Nil
     /\ \A i \in 1..Len(patchCall.before) : Decodable(patchCall.before[i])) =>
        /\ compressedPatches =
               patchCall.first \o Entries(patchCall.before,
                                          Len(patchCall.before))
        /\ \A k \in 1..Len(Appended) : ~Blank(Appended[k].of)

\* A call skipped a whitespace-only patch whose compressed form is not
\* below the threshold and appended the other patch.
C13_Witness ==
    /\ patchCall.calls = 1 /\ patchCall.err = Nil
    /\ \A i \in 1..Len(patchCall.before) : Decodable(patchCall.before[i])
    /\ \E i \in 1..Len(patchCall.before) :
           /\ patchCall.before[i].compressed.len >= SmallPatchThreshold
           /\ Blank(patchCall.before[i].compressed.of)
           /\ Len(Appended) = Len(patchCall.before) - 1

\* The patches the latest call got through without an error.
Done == IF patchCall.err = Nil THEN 1..Len(patchCall.before)
        ELSE 1..(patchCall.at - 1)

\* C14 (SpecPatch): for a non-empty patch that already has a compressed
\* form the bytes appended are that stored form and the patch is not
\* modified; only a patch without a compressed form is compressed, and it
\* is written back with the same logical content.
C14_Reuse ==
    patchCall.calls >= 1 =>
        \A i \in 1..Len(patchCall.before) :
            LET old == patchCall.before[i]
                new == patches[i]
                k == Len(Entries(patchCall.before, i))
            IN  /\ new # old => old.compressed = NoBytes
                /\ (i \in Done /\ Kept(old) /\ old.compressed # NoBytes) =>
                       /\ new = old
                       /\ Appended[k] = old.compressed
                /\ (i \in Done /\ Kept(old) /\ old.compressed = NoBytes) =>
                       /\ new.compressed.kind = "zstd"
                       /\ new.compressed.of = old.data
                       /\ new.data = NoContent
                       /\ Appended[k] = new.compressed

\* One call reused a form stored at another level and compressed a patch
\* that had none.
C14_Witness ==
    /\ patchCall.calls = 1 /\ patchCall.err = Nil
    /\ \E i, j \in 1..Len(patchCall.before) :
           /\ patchCall.before[i].compressed.level = OtherLevel
           /\ patches[i] = patchCall.before[i]
           /\ patchCall.before[j].compressed = NoBytes
           /\ patches[j].compressed.of = patchCall.before[j].data
           /\ patches[j].compressed # NoBytes

\* C15 (SpecPatch): if compressing or decompressing a patch fails, a patch
\* whose stored compressed form cannot be decompressed included, the call
\* stops at that patch, appends neither it nor any later patch, and returns
\* the error.
C15_ErrorsStop ==
    patchCall.calls >= 1 =>
        /\ patchCall.err # Nil =>
               Appended = Entries(patchCall.before, patchCall.at - 1)
        /\ \A i \in 1..Len(patchCall.before) :
               ~Decodable(patchCall.before[i]) =>
                   /\ patchCall.err # Nil
                   /\ patchCall.at <= i
                   /\ \A k \in 1..Len(Appended) :
                          Appended[k] # patchCall.before[i].compressed

\* C16 (SpecPatch): when a call returns an error at the k-th patch, the
\* output collection holds its previous entries followed by the entries of
\* the non-empty patches among the first k-1 inputs, in order; a patch whose
\* stored form cannot be read counts as non-empty.
C16_NoRollback ==
    (patchCall.calls >= 1 /\ patchCall.err # Nil) =>
        /\ patchCall.at \in 1..Len(patchCall.before)
        /\ compressedPatches =
               patchCall.first \o Entries(patchCall.before, patchCall.at - 1)

\* The second patch failed after the first had been appended to a
\* collection that was not empty.
C16_Witness ==
    /\ patchCall.calls = 1 /\ patchCall.err # Nil /\ patchCall.at = 2
    /\ patchCall.first # <<>>
    /\ Len(compressedPatches) = Len(patchCall.first) + 1

\* C17 (SpecPatch), as claimed: a second call with the same patches and the
\* same output resource leaves the patches and the output collection as
\* they were after the first call.
C17_Idempotent ==
    (patchCall.calls >= 2 /\ patchCall.prevErr = Nil) =>
        /\ patches = patchCall.before
        /\ compressedPatches = patchCall.first

\* C17 (SpecPatch), amended: a second call after a successful one leaves
\* the patches as they were, returns no error, and appends to the output
\* collection the same entries the first call appended.
C17_SecondCall ==
    (patchCall.calls >= 2 /\ patchCall.prevErr = Nil) =>
        /\ patches = patchCall.before
        /\ patchCall.err = Nil
        /\ compressedPatches = patchCall.first \o patchCall.prevAppended

\* The second call appended the first call's entry once more.
C17_Witness ==
    /\ patchCall.calls = 2 /\ patchCall.prevErr = Nil
    /\ patchCall.prevAppended # <<>>
    /\ Len(compressedPatches) =
           Len(patchCall.first) + Len(patchCall.prevAppended)
    /\ compressedPatches[Len(compressedPatches)] =
           patchCall.first[Len(patchCall.first)]

\* ---------------------------------------------------------------------
\* Label and annotation helpers
\* ---------------------------------------------------------------------

\* omni.SystemLabelPrefix, the reserved prefix of the system keys.
SystemLabelPrefix == <<"s", "/">>

\* strings.HasPrefix
HasPrefix(key, prefix) ==
    Len(key) >= Len(prefix) /\ SubSeq(key, 1, Len(prefix)) = prefix

LabelKeys == {<<"a">>, <<"s">>, <<"s", "/", "x">>}
AnnotationKeys == {<<"a">>, <<"s", "/", "x">>}
KVValues == {"1", "2"}
KVs(keys) == UNION {[K -> KVValues] : K \in SUBSET keys}

\* kvutils.TempKV Set and Delete.
Set(tmp, key, value) ==
    [k \in DOMAIN tmp \cup {key} |-> IF k = key THEN value ELSE tmp[k]]
Delete(tmp, key) == [k \in DOMAIN tmp \ {key} |-> tmp[k]]

\* for key, value := range src ... { tmp.Set(key, value) }
RECURSIVE SetEach(_, _, _)
SetEach(tmp, src, keys) ==
    IF keys = {} THEN tmp
    ELSE LET key == CHOOSE k \in keys : TRUE
         IN  SetEach(IF key \in DOMAIN src THEN Set(tmp, key, src[key])
                     ELSE tmp,
                     src, keys \ {key})

\* Copies the labels that are not system labels only.
CopyAllLabelsUser(src, res) ==
    [res EXCEPT !.labels =
        SetEach(res.labels, src,
                {k \in DOMAIN src : ~HasPrefix(k, SystemLabelPrefix)})]

CopyAllLabels(src, res) ==
    [res EXCEPT !.labels = SetEach(res.labels, src, DOMAIN src)]

CopyLabels(src, res, keys) ==
    [res EXCEPT !.labels = SetEach(res.labels, src, keys)]

CopyAllAnnotations(src, res) ==
    [res EXCEPT !.annotations = SetEach(res.annotations, src, DOMAIN src)]

CopyAnnotations(src, res, keys) ==
    [res EXCEPT !.annotations = SetEach(res.annotations, src, keys)]

\* for key := range labels { if HasPrefix(...) { continue }; tmp.Delete(key) }
RECURSIVE DeleteUser(_, _)
DeleteUser(tmp, keys) ==
    IF keys = {} THEN tmp
    ELSE LET key == CHOOSE k \in keys : TRUE
         IN  DeleteUser(IF HasPrefix(key, SystemLabelPrefix) THEN tmp
                        ELSE Delete(tmp, key),
                        keys \ {key})

\* Removes every label.
ClearUserLabelsAll(res) == [res EXCEPT !.labels = <<>>]

ClearUserLabels(res) ==
    [res EXCEPT !.labels = DeleteUser(res.labels, DOMAIN res.labels)]

CopyUserLabels(target, labels) ==
    LET cleared == ClearUserLabels(target)
    IN  IF Cardinality(DOMAIN labels) = 0 THEN cleared
        ELSE [cleared EXCEPT !.labels =
                 SetEach(cleared.labels, labels,
                         {k \in DOMAIN labels :
                             ~HasPrefix(k, SystemLabelPrefix)})]

NoLabelOp == [op |-> "none", src |-> <<>>, keys |-> {}, before |-> <<>>]

\* One helper call on the destination; the record keeps what it was given.
Applied(op, src, keys, after) ==
    /\ labelOp.op = "none"
    /\ dst' = after
    /\ labelOp' = [op |-> op, src |-> src, keys |-> keys, before |-> dst]
    /\ UNCHANGED <<guardVars, annotVars, talosVars, patchVars, logVars>>

CopyAllLabelsCall(src) ==
    Applied("CopyAllLabels", src, {}, CopyAllLabels(src, dst))
CopyLabelsCall(src, keys) ==
    Applied("CopyLabels", src, keys, CopyLabels(src, dst, keys))
CopyAllAnnotationsCall(src) ==
    Applied("CopyAllAnnotations", src, {}, CopyAllAnnotations(src, dst))
CopyAnnotationsCall(src, keys) ==
    Applied("CopyAnnotations", src, keys, CopyAnnotations(src, dst, keys))
CopyUserLabelsCall(labels) ==
    Applied("CopyUserLabels", labels, {}, CopyUserLabels(dst, labels))
ClearUserLabelsCall ==
    Applied("ClearUserLabels", <<>>, {}, ClearUserLabels(dst))

LabelInit ==
    /\ dst \in [labels : KVs(LabelKeys), annotations : KVs(AnnotationKeys)]
    /\ labelOp = NoLabelOp
    /\ GuardIdle /\ AnnotIdle /\ DigestIdle
    /\ TalosIdle /\ PatchIdle /\ LogIdle

LabelNext ==
    \/ \E src \in KVs(LabelKeys) : CopyAllLabelsCall(src)
    \/ \E src \in KVs(LabelKeys), keys \in SUBSET LabelKeys :
           CopyLabelsCall(src, keys)
    \/ \E src \in KVs(AnnotationKeys) : CopyAllAnnotationsCall(src)
    \/ \E src \in KVs(AnnotationKeys), keys \in SUBSET AnnotationKeys :
           CopyAnnotationsCall(src, keys)
    \/ \E labels \in KVs(LabelKeys) : CopyUserLabelsCall(labels)
    \/ ClearUserLabelsCall

SpecLabels == LabelInit /\ [][LabelNext]_vars

SystemKey(k) == Len(k) >= 2 /\ k[1] = "s" /\ k[2] = "/"

\* kv has exactly the entries of a under the keys in ka and of b under kb.
MadeOf(kv, a, ka, b, kb) ==
    /\ DOMAIN kv = ka \cup kb
    /\ \A k \in kb : kv[k] = b[k]
    /\ \A k \in ka \ kb : kv[k] = a[k]

\* C18 (SpecLabels): after CopyUserLabels the target's labels are its
\* previous system-prefixed labels, unchanged, together with the supplied
\* entries whose key is not system-prefixed; previous user labels not
\* supplied are gone and supplied system-prefixed entries are ignored.
\* ClearUserLabels leaves exactly the system-prefixed labels.
C18_UserLabels ==
    LET old == labelOp.before.labels
        sys == {k \in DOMAIN old : SystemKey(k)}
    IN  /\ labelOp.op = "CopyUserLabels" =>
               /\ MadeOf(dst.labels, old, sys, labelOp.src,
                         {k \in DOMAIN labelOp.src : ~SystemKey(k)})
               /\ dst.annotations = labelOp.before.annotations
        /\ labelOp.op = "ClearUserLabels" =>
               /\ MadeOf(dst.labels, old, sys, <<>>, {})
               /\ dst.annotations = labelOp.before.annotations

\* User label a was replaced by user label s while a supplied system label
\* with another value was ignored.
C18_Witness ==
    /\ labelOp.op = "CopyUserLabels"
    /\ <<"a">> \in DOMAIN labelOp.before.labels
    /\ <<"a">> \notin DOMAIN dst.labels
    /\ <<"s">> \in DOMAIN dst.labels
    /\ <<"s">> \notin DOMAIN labelOp.before.labels
    /\ <<"s", "/", "x">> \in DOMAIN labelOp.src
    /\ <<"s", "/", "x">> \in DOMAIN dst.labels
    /\ dst.labels[<<"s", "/", "x">>] # labelOp.src[<<"s", "/", "x">>]

\* Every system-prefixed key of kv is in old with the same value, and the
\* other way round.
SystemKeysSame(kv, old) ==
    /\ {k \in DOMAIN kv : SystemKey(k)} = {k \in DOMAIN old : SystemKey(k)}
    /\ \A k \in DOMAIN kv : SystemKey(k) => kv[k] = old[k]

\* C19 (SpecLabels), as claimed: none of the six helpers adds, overwrites or
\* removes a system-prefixed key on the destination.
C19_SystemKeysUntouched ==
    labelOp.op # "none" =>
        /\ SystemKeysSame(dst.labels, labelOp.before.labels)
        /\ SystemKeysSame(dst.annotations, labelOp.before.annotations)

\* C19 (SpecLabels), amended: CopyUserLabels and ClearUserLabels leave the
\* system-prefixed labels and all annotations alone.  The four copy helpers
\* do not look at the prefix: the destination gets every copied key the
\* source has, system-prefixed or not, with the source's value, keeps its
\* other keys as they were, and loses none.
C19_PrefixRule ==
    LET old == labelOp.before
        copied == IF labelOp.op \in {"CopyAllLabels", "CopyAllAnnotations"}
                  THEN DOMAIN labelOp.src
                  ELSE labelOp.keys \cap DOMAIN labelOp.src
    IN  /\ labelOp.op \in {"CopyUserLabels", "ClearUserLabels"} =>
               /\ SystemKeysSame(dst.labels, old.labels)
               /\ dst.annotations = old.annotations
        /\ labelOp.op \in {"CopyAllLabels", "CopyLabels"} =>
               /\ MadeOf(dst.labels, old.labels, DOMAIN old.labels,
                         labelOp.src, copied)
               /\ dst.annotations = old.annotations
        /\ labelOp.op \in {"CopyAllAnnotations", "CopyAnnotations"} =>
               /\ MadeOf(dst.annotations, old.annotations,
                         DOMAIN old.annotations, labelOp.src, copied)
               /\ dst.labels = old.labels

\* CopyAllLabels overwrote a system-prefixed label of the destination with
\* the source's value.
C19_Witness ==
    /\ labelOp.op = "CopyAllLabels"
    /\ <<"s", "/", "x">> \in DOMAIN labelOp.before.labels
    /\ <<"s", "/", "x">> \in DOMAIN labelOp.src
    /\ labelOp.before.labels[<<"s", "/", "x">>] # labelOp.src[<<"s", "/", "x">>]
    /\ dst.labels[<<"s", "/", "x">>] = labelOp.src[<<"s", "/", "x">>]

\* ---------------------------------------------------------------------
\* logreceiver: ConnHandler.HandleConn feeding the test's log handler
\* ---------------------------------------------------------------------

MaxMessages == 3
Newline == "\n"
addr == "1.2.3.4"
Hello1 == <<"{", "1", "}">>
Hello2 == <<"{", "2", "}">>
MessageBodies == {Hello1, Hello2, <<"{", "}">>}

\* The bytes of the messages, each followed by a newline.
RECURSIVE Stream(_)
Stream(msgs) ==
    IF msgs = <<>> THEN <<>>
    ELSE Head(msgs) \o <<Newline>> \o Stream(Tail(msgs))

MessageSeqs == UNION {[1..n -> MessageBodies] : n \in 0..MaxMessages}

\* How the connection ends after its last byte: io.EOF or a read error.
Endings == {"EOF", "reset"}

NoHandler == [calls |-> <<>>, b |-> <<>>, failed |-> FALSE, errors |-> 0]

\* A handler that keeps the latest message only.
HandleMessageLast(h, srcAddress, rawData) ==
    [h EXCEPT !.calls = Append(@, [src |-> srcAddress, raw |-> rawData]),
              !.b = rawData,
              !.failed = @ \/ srcAddress # addr]

\* testLogHandler.HandleMessage: checks the source address and writes the
\* message to the buffer.
HandleMessage(h, srcAddress, rawData) ==
    [h EXCEPT !.calls = Append(@, [src |-> srcAddress, raw |-> rawData]),
              !.b = @ \o rawData,
              !.failed = @ \/ srcAddress # addr]

\* testLogHandler.HandleError: checks the source address and fails the test.
HandleError(h, srcAddress) ==
    [h EXCEPT !.errors = @ + 1, !.failed = TRUE]

\* The position of the first newline after the bytes already read, 0 if
\* there is none.
NextNewline ==
    LET at == {k \in (conn.read + 1)..Len(conn.data) : conn.data[k] = Newline}
    IN  IF at = {} THEN 0 ELSE CHOOSE k \in at : \A j \in at : k <= j

\* HandleConn reads up to the next newline and hands the message over.
ReadMessage ==
    /\ logState = "reading"
    /\ NextNewline # 0
    /\ received' = HandleMessage(received, addr,
                                 SubSeq(conn.data, conn.read + 1,
                                        NextNewline - 1))
    /\ conn' = [conn EXCEPT !.read = NextNewline]
    /\ UNCHANGED <<logState, guardVars, annotVars, talosVars, patchVars,
                   labelVars>>

\* The stream ended: HandleConn returns.
ReadEOF ==
    /\ logState = "reading"
    /\ NextNewline = 0
    /\ conn.ending = "EOF"
    /\ logState' = "closed"
    /\ UNCHANGED <<conn, received, guardVars, annotVars, talosVars,
                   patchVars, labelVars>>

\* The read failed: HandleConn reports the error and returns.
ReadError ==
    /\ logState = "reading"
    /\ NextNewline = 0
    /\ conn.ending = "reset"
    /\ received' = HandleError(received, addr)
    /\ logState' = "closed"
    /\ UNCHANGED <<conn, guardVars, annotVars, talosVars, patchVars,
                   labelVars>>

LogInit ==
    /\ \E msgs \in MessageSeqs, ending \in Endings :
           conn = [data |-> Stream(msgs), read |-> 0, ending |-> ending]
    /\ received = NoHandler
    /\ logState = "reading"
    /\ GuardIdle /\ AnnotIdle /\ DigestIdle
    /\ TalosIdle /\ PatchIdle /\ LabelIdle

LogNext == ReadMessage \/ ReadEOF \/ ReadError

SpecLog == LogInit /\ [][LogNext]_vars

\* The newline-terminated messages within the first n bytes of data, each
\* without its newline.
RECURSIVE Messages(_, _)
Messages(data, n) ==
    IF n = 0 THEN <<>>
    ELSE IF data[n] # Newline THEN Messages(data, n - 1)
    ELSE LET starts == {k \in 1..n :
                           \A j \in k..(n - 1) : data[j] # Newline}
             from == CHOOSE k \in starts : \A j \in starts : k <= j
         IN  Append(Messages(data, from - 1), SubSeq(data, from, n - 1))

RECURSIVE Concat(_)
Concat(msgs) == IF msgs = <<>> THEN <<>> ELSE Head(msgs) \o Concat(Tail(msgs))

C21_FirstMatchWins ==
    talosCall.called =>
        LET m == talosCall.machine
            maintenance ==
                /\ ~talosCall.snapFail
                /\ cluster.snapshot # Absent
                /\ cluster.snapshot.stage = Maintenance
        IN  /\ talosCall.reads \in {<<>>, <<"MachineStatusSnapshot">>,
                                    <<"MachineStatusSnapshot", "TalosConfig">>}
            /\ m = NoMachine => talosCall.reads = <<>>
            /\ m # NoMachine => talosCall.reads # <<>>
            /\ (m # NoMachine /\ (maintenance \/ m.cluster = NoLabel)) =>
                   /\ talosCall.reads = <<"MachineStatusSnapshot">>
                   /\ talosCall.err.wrap # "cluster"
            /\ ((m = NoMachine \/ maintenance
                 \/ (~talosCall.snapFail /\ m.cluster = NoLabel))
                /\ ~talosCall.newFail) =>
                   /\ talosCall.err = NoError
                   /\ talosCall.client.tls = "InsecureSkipVerify"
                   /\ talosCall.client.config = Absent

\* A machine in maintenance with a cluster label whose TalosConfig exists
\* got the insecure connection, although the TalosConfig lookup would have
\* failed.
C21_Witness ==
    /\ talosCall.called /\ talosCall.cfgFail /\ ~talosCall.snapFail
    /\ ~talosCall.newFail
    /\ talosCall.machine # NoMachine
    /\ talosCall.machine.cluster \in ClusterNames
    /\ cluster.snapshot # Absent /\ cluster.snapshot.stage = Maintenance
    /\ cluster.talosConfig[talosCall.machine.cluster] # Absent
    /\ talosCall.reads = <<"MachineStatusSnapshot">>
    /\ talosCall.err = NoError
    /\ talosCall.client.tls = "InsecureSkipVerify"

====
